---- MODULE Spec2Model ----
(***************************************************************************)
(* A model of package packedancestrymap (src/packedancestrymap.go): the    *)
(* first-column digest (HashIt, HashFileFirstColumn), the header check     *)
(* (Calcishash), the two table readers (ReadSnpFile, ReadIndFile) and the  *)
(* decode-and-dispatch loop of ProcessGenoRows with its goroutines.        *)
(*                                                                         *)
(* Files are sequences of bytes (0..255); a string is the sequence of its  *)
(* bytes.  The files of a call do not change while it runs: the state      *)
(* names the dataset (`disk`), and `fs` is the content of its files.       *)
(* Slices that the program allocates live in `heap`, addressed by their    *)
(* index, so that sharing of backing storage can be observed.              *)
(***************************************************************************)
EXTENDS Integers, Sequences, FiniteSets, TLC

VARIABLES
  disk,          \* the dataset on disk, by its description (see fs and args below)
  pc,            \* position of the calling goroutine inside ProcessGenoRows
  ok,            \* ok, the boolean Calcishash returned (false before the call)
  err,           \* the value ProcessGenoRows returned ("pending" before it returns)
  snps,          \* snps, the parsed marker table
  inds,          \* inds, the parsed individual table
  genoReader,    \* the bufio.Reader over the geno file: [off, w, r]
  genoChunkSize, \* genoChunkSize
  rchunk,        \* rchunk, the read buffer reused by every Read
  snpIndex,      \* the loop variable
  genoRow,       \* address in heap of the row of the current iteration (0: none)
  heap,          \* the rows allocated by make([]byte, len(inds)), by address
  wg,            \* the WaitGroup counter
  task,          \* the goroutines started by the loop, in start order
  hashArg,       \* argument of a direct call of HashFileFirstColumn
  hashRet        \* its result ("pending" before the call)

vars == <<disk, pc, ok, err, snps, inds, genoReader, genoChunkSize, rchunk,
          snpIndex, genoRow, heap, wg, task, hashArg, hashRet>>

(***************************************************************************)
(* Bytes and strings                                                       *)
(***************************************************************************)
Byte == 0..255

\* '\n', the delimiter of ReadString(10) and of bufio.ScanLines
NL == 10

\* A uint32 is kept as its two 16-bit halves [hi, lo], the value hi * 2^16 + lo:
\* TLC's integers are narrower than the products of uint32 arithmetic.
Half == 65536

U32(hi, lo) == [hi |-> hi, lo |-> lo]

Min(a, b) == IF a < b THEN a ELSE b

\* s[from..] (1-based), the rest of a sequence
Drop(s, k) == SubSeq(s, k + 1, Len(s))

\* the Perl class \s of package regexp: [\t\n\f\r ]
IsReSpace(b) == b \in {9, 10, 12, 13, 32}

\* unicode.IsSpace on ASCII, as used by strings.Fields: '\t' '\n' '\v' '\f' '\r' ' '
IsSpace(b) == b \in {9, 10, 11, 12, 13, 32}

\* a ^ b on unsigned integers
RECURSIVE Xor(_, _)
Xor(a, b) ==
  IF a = 0 THEN b
  ELSE IF b = 0 THEN a
  ELSE (((a % 2) + (b % 2)) % 2) + 2 * Xor(a \div 2, b \div 2)

(***************************************************************************)
(* HashIt, HashFileFirstColumn                                             *)
(***************************************************************************)
\* x*k + c as it would be if the carry of the low half were lost
MulAdd32NoCarry(x, k, c) == U32((x.hi * k) % Half, (x.lo * k + c) % Half)

\* x*k + c in uint32 arithmetic (k, c < 2^8): the carry of the low half goes
\* into the high half, the carry of the high half is dropped
MulAdd32(x, k, c) ==
  LET lo == x.lo * k + c
      hi == x.hi * k + (lo \div Half)
  IN U32(hi % Half, lo % Half)

\* x ^ y on uint32
Xor32(x, y) == U32(Xor(x.hi, y.hi), Xor(x.lo, y.lo))

\* hash *= 23; hash += uint32(str[j]), for j = 0 .. len(str)-1, from hash
RECURSIVE HashItFrom(_, _, _)
HashItFrom(str, j, hash) ==
  IF j > Len(str) THEN hash
  ELSE HashItFrom(str, j + 1, MulAdd32(hash, 23, str[j]))

HashIt(str) == HashItFrom(str, 1, U32(0, 0))

\* end (exclusive) of the run of non-space bytes that starts at i
RECURSIVE RunEnd(_, _)
RunEnd(str, i) ==
  IF i > Len(str) \/ IsReSpace(str[i]) THEN i ELSE RunEnd(str, i + 1)

\* regexp `\S+` FindString: the leftmost, longest run of non-space bytes ("" if none)
RECURSIVE FindFirstColumn(_, _)
FindFirstColumn(str, i) ==
  IF i > Len(str) THEN <<>>
  ELSE IF IsReSpace(str[i]) THEN FindFirstColumn(str, i + 1)
  ELSE SubSeq(str, i, RunEnd(str, i) - 1)

\* the positions of the NL bytes among content[lo..hi], ascending (the range is
\* halved so that the evaluation stays shallow on long files)
RECURSIVE NewlinesIn(_, _, _)
NewlinesIn(content, lo, hi) ==
  IF lo > hi THEN <<>>
  ELSE IF lo = hi THEN (IF content[lo] = NL THEN <<lo>> ELSE <<>>)
  ELSE LET mid == (lo + hi) \div 2
       IN NewlinesIn(content, lo, mid) \o NewlinesIn(content, mid + 1, hi)

Newlines(content) == NewlinesIn(content, 1, Len(content))

\* the strings that the successive reader.ReadString(10) return with a nil
\* error: each runs up to and including the next delimiter.  What follows the
\* last delimiter comes back together with io.EOF.
ReadStrings(content) ==
  LET nls == Newlines(content)
  IN [i \in 1..Len(nls) |->
        SubSeq(content, IF i = 1 THEN 1 ELSE nls[i - 1] + 1, nls[i])]

\* one pass of the loop body: thash = HashIt(FindString(str)); hash *= 17; hash ^= thash
HashStep(hash, str) == Xor32(MulAdd32(hash, 17, 0), HashIt(FindFirstColumn(str, 1)))

\* the for loop of HashFileFirstColumn over strs[lo..hi], from hash (the passes
\* run in order; the range is halved so that the evaluation stays shallow)
RECURSIVE HashLoop(_, _, _, _)
HashLoop(strs, lo, hi, hash) ==
  IF lo > hi THEN hash
  ELSE IF lo = hi THEN HashStep(hash, strs[lo])
  ELSE LET mid   == (lo + hi) \div 2
           first == HashLoop(strs, lo, mid, hash)
       IN \* the test only makes the first half be evaluated before the second
          IF first.hi >= 0 THEN HashLoop(strs, mid + 1, hi, first) ELSE first

\* HashFileFirstColumn on an open file: var hash uint32, then the loop, which
\* returns hash as soon as ReadString reports io.EOF
HashFileFirstColumn(content) ==
  LET strs == ReadStrings(content)
  IN HashLoop(strs, 1, Len(strs), U32(0, 0))

(***************************************************************************)
(* Calcishash                                                              *)
(***************************************************************************)
\* bufio.MaxScanTokenSize: the largest line a default bufio.Scanner returns
MaxScanTokenSize == 65536

\* bufio.ScanLines drops one trailing '\r' of a line
DropCR(line) ==
  IF Len(line) > 0 /\ line[Len(line)] = 13 THEN SubSeq(line, 1, Len(line) - 1) ELSE line

\* scanner.Scan() then scanner.Text() on a fresh bufio.Scanner: the first line.
\* Scan fails on an empty file, and with ErrTooLong when the buffer has grown to
\* MaxScanTokenSize bytes without holding a newline.
ScanFirstLine(content) ==
  LET window == Min(Len(content), MaxScanTokenSize)
      nls    == {i \in 1..window : content[i] = NL}
  IN IF Len(content) = 0 THEN [ok |-> FALSE, text |-> <<>>]
     ELSE IF nls # {}
       THEN LET nl == CHOOSE i \in nls : \A j \in nls : i <= j
            IN [ok |-> TRUE, text |-> DropCR(SubSeq(content, 1, nl - 1))]
     ELSE IF Len(content) >= MaxScanTokenSize THEN [ok |-> FALSE, text |-> <<>>]
     ELSE [ok |-> TRUE, text |-> DropCR(content)]

\* the digits of strconv.FormatInt(v, 16): '0'..'9', 'a'..'f'
HexDigit(d) == IF d < 10 THEN 48 + d ELSE 87 + d

\* the hexadecimal digits of v, most significant first, without leading zeros
RECURSIVE HexOf(_)
HexOf(v) ==
  IF v < 16 THEN <<HexDigit(v)>>
  ELSE Append(HexOf(v \div 16), HexDigit(v % 16))

\* the four hexadecimal digits of a 16-bit half
Hex4(v) ==
  <<HexDigit(v \div 4096), HexDigit((v \div 256) % 16), HexDigit((v \div 16) % 16),
    HexDigit(v % 16)>>

\* strconv.FormatInt(int64(h), 16) for a uint32 h: lowercase, no sign, no padding
FormatInt16(h) == IF h.hi = 0 THEN HexOf(h.lo) ELSE HexOf(h.hi) \o Hex4(h.lo)

\* regexp.MatchString of a pattern made of hex digits only: the pattern occurs
\* somewhere in the text
MatchString(pattern, text) ==
  \E i \in 0..(Len(text) - Len(pattern)) :
     \A j \in 1..Len(pattern) : text[i + j] = pattern[j]

\* the last statement of Calcishash
HashOk(header, indHash, snpHash, indPath, snpPath) ==
  MatchString(indHash, header) /\ MatchString(snpHash, header) /\ indPath # snpPath

\* Calcishash(genoPath, indPath, snpPath): the pair (bool, error).  "nil" is the
\* nil error; a failed Scan returns (false, err) with the nil err of os.Open.
Calcishash(files, genoPath, indPath, snpPath) ==
  IF genoPath \notin DOMAIN files THEN [ok |-> FALSE, err |-> "open"]
  ELSE LET first == ScanFirstLine(files[genoPath]) IN
    IF ~first.ok THEN [ok |-> FALSE, err |-> "nil"]
    ELSE IF indPath \notin DOMAIN files THEN [ok |-> FALSE, err |-> "open"]
    ELSE IF snpPath \notin DOMAIN files THEN [ok |-> FALSE, err |-> "open"]
    ELSE LET indHash == FormatInt16(HashFileFirstColumn(files[indPath]))
             snpHash == FormatInt16(HashFileFirstColumn(files[snpPath]))
         IN [ok  |-> HashOk(first.text, indHash, snpHash, indPath, snpPath),
             err |-> "nil"]

(***************************************************************************)
(* ReadSnpFile, ReadIndFile                                                *)
(***************************************************************************)
\* bufio.Scanner with ScanLines over a whole file: the lines, and whether the
\* scanner stopped with ErrTooLong.  A line ends at its '\n'; what follows the
\* last '\n' is a line too, unless it is empty.
ScanLines(content) ==
  LET nls   == Newlines(content)
      k     == Len(nls)
      last  == IF k = 0 THEN 0 ELSE nls[k]
      count == IF last < Len(content) THEN k + 1 ELSE k
      from(i) == IF i = 1 THEN 1 ELSE nls[i - 1] + 1
      to(i)   == IF i <= k THEN nls[i] - 1 ELSE Len(content)
      long  == {i \in 1..count : to(i) - from(i) + 1 >= MaxScanTokenSize}
      stop  == IF long = {} THEN count
               ELSE (CHOOSE i \in long : \A j \in long : i <= j) - 1
  IN [lines   |-> [i \in 1..stop |-> DropCR(SubSeq(content, from(i), to(i)))],
      tooLong |-> long # {}]

\* strings.Trim(s, " ")
RECURSIVE TrimLeft(_)
TrimLeft(s) == IF Len(s) > 0 /\ s[1] = 32 THEN TrimLeft(Tail(s)) ELSE s

RECURSIVE TrimRight(_)
TrimRight(s) ==
  IF Len(s) > 0 /\ s[Len(s)] = 32 THEN TrimRight(SubSeq(s, 1, Len(s) - 1)) ELSE s

Trim(s) == TrimRight(TrimLeft(s))

\* end (exclusive) of the field that starts at i
RECURSIVE FieldEnd(_, _)
FieldEnd(s, i) == IF i > Len(s) \/ IsSpace(s[i]) THEN i ELSE FieldEnd(s, i + 1)

\* strings.Fields: the maximal runs of non-space bytes, in order
RECURSIVE FieldsFrom(_, _, _)
FieldsFrom(s, i, acc) ==
  IF i > Len(s) THEN acc
  ELSE IF IsSpace(s[i]) THEN FieldsFrom(s, i + 1, acc)
  ELSE LET e == FieldEnd(s, i)
       IN FieldsFrom(s, e, Append(acc, SubSeq(s, i, e - 1)))

Fields(s) == FieldsFrom(s, 1, <<>>)

IsDigit(b) == b >= 48 /\ b <= 57

\* value of a run of decimal digits
RECURSIVE DigitsValue(_, _)
DigitsValue(s, acc) ==
  IF Len(s) = 0 THEN acc ELSE DigitsValue(Tail(s), 10 * acc + (s[1] - 48))

AllDigits(s) == Len(s) > 0 /\ \A i \in 1..Len(s) : IsDigit(s[i])

HasSign(s) == Len(s) > 0 /\ s[1] \in {43, 45}

Unsigned(s) == IF HasSign(s) THEN Tail(s) ELSE s

\* strconv.Atoi succeeds: an optional sign and decimal digits (tokens here are
\* far shorter than the 19 digits at which it reports a range error)
AtoiOk(s) == AllDigits(Unsigned(s))

AtoiValue(s) ==
  IF Len(s) > 0 /\ s[1] = 45 THEN 0 - DigitsValue(Unsigned(s), 0)
  ELSE DigitsValue(Unsigned(s), 0)

\* strconv.ParseUint(s, 10, 0) succeeds: decimal digits, no sign (the positions
\* of this model's tables are below 2^31, so uint32(ppos) is the value itself)
ParseUintOk(s) == AllDigits(s)

\* position of the first '.', 0 when there is none
RECURSIVE IndexDot(_, _)
IndexDot(s, i) ==
  IF i > Len(s) THEN 0 ELSE IF s[i] = 46 THEN i ELSE IndexDot(s, i + 1)

\* strconv.ParseFloat(s, 32) on plain decimal literals: [sign] digits [. digits],
\* with a digit on at least one side of the point.  Exponents, hexadecimal
\* floats, "inf" and "nan" need bytes the marker tables of this model never hold.
ParseFloatOk(s) ==
  LET u   == Unsigned(s)
      dot == IndexDot(u, 1)
      ip  == IF dot = 0 THEN u ELSE SubSeq(u, 1, dot - 1)
      fp  == IF dot = 0 THEN <<>> ELSE Drop(u, dot)
  IN /\ Len(ip) + Len(fp) > 0
     /\ \A i \in 1..Len(ip) : IsDigit(ip[i])
     /\ \A i \in 1..Len(fp) : IsDigit(fp[i])

\* the value of such a literal, kept exactly as mant / 10^scale
ParseFloatValue(s) ==
  LET u   == Unsigned(s)
      dot == IndexDot(u, 1)
      ip  == IF dot = 0 THEN u ELSE SubSeq(u, 1, dot - 1)
      fp  == IF dot = 0 THEN <<>> ELSE Drop(u, dot)
      m   == DigitsValue(ip \o fp, 0)
  IN [mant |-> IF Len(s) > 0 /\ s[1] = 45 THEN 0 - m ELSE m, scale |-> Len(fp)]

\* the body of the scanner loop of ReadSnpFile for one line: the Snp appended,
\* an error returned, or an index out of range (a panic)
SnpOfLine(text) ==
  LET fields == Fields(Trim(text))
      n      == Len(fields)
  IN IF n < 2 THEN [res |-> "panic"]
     ELSE IF ~AtoiOk(fields[2]) THEN [res |-> "error"]
     ELSE IF n < 3 THEN [res |-> "panic"]
     ELSE IF ~ParseFloatOk(fields[3]) THEN [res |-> "error"]
     ELSE IF n < 4 THEN [res |-> "panic"]
     ELSE IF ~ParseUintOk(fields[4]) THEN [res |-> "error"]
     ELSE IF n < 6 THEN [res |-> "panic"]
     ELSE [res |-> "ok",
           snp |-> [Name        |-> fields[1],
                    Chromosome  |-> AtoiValue(fields[2]) % 256,
                    GeneticPos  |-> ParseFloatValue(fields[3]),
                    PhysicalPos |-> DigitsValue(fields[4], 0),
                    Ref         |-> fields[5][1],
                    Alt         |-> fields[6][1]]]

\* the scanner loop over the lines: it appends until a line fails, and ends
\* with that line's outcome
FirstFailure(outcomes) ==
  LET bad == {i \in 1..Len(outcomes) : outcomes[i].res # "ok"}
  IN IF bad = {} THEN 0 ELSE CHOOSE i \in bad : \A j \in bad : i <= j

\* ReadSnpFile(path): [res, snps]; res is "ok", "error" (an error is returned)
\* or "panic"
ReadSnpFile(files, path) ==
  IF path \notin DOMAIN files THEN [res |-> "error", snps |-> <<>>]
  ELSE LET sc   == ScanLines(files[path])
           outs == [i \in 1..Len(sc.lines) |-> SnpOfLine(sc.lines[i])]
           bad  == FirstFailure(outs)
           done == IF bad = 0 THEN Len(outs) ELSE bad - 1
       IN [res  |-> IF bad # 0 THEN outs[bad].res
                    ELSE IF sc.tooLong THEN "error" ELSE "ok",
           snps |-> [i \in 1..done |-> outs[i].snp]]

\* the body of the scanner loop of ReadIndFile for one line
IndOfLine(text) ==
  LET fields == Fields(Trim(text))
  IN IF Len(fields) < 3 THEN [res |-> "panic"]
     ELSE [res |-> "ok",
           ind |-> [SampleID |-> fields[1], Gender |-> fields[2], Label |-> fields[3]]]

\* ReadIndFile(path): [res, inds]
ReadIndFile(files, path) ==
  IF path \notin DOMAIN files THEN [res |-> "error", inds |-> <<>>]
  ELSE LET sc   == ScanLines(files[path])
           outs == [i \in 1..Len(sc.lines) |-> IndOfLine(sc.lines[i])]
           bad  == FirstFailure(outs)
           done == IF bad = 0 THEN Len(outs) ELSE bad - 1
       IN [res  |-> IF bad # 0 THEN outs[bad].res
                    ELSE IF sc.tooLong THEN "error" ELSE "ok",
           inds |-> [i \in 1..done |-> outs[i].ind]]

(***************************************************************************)
(* The buffered reader of the geno file                                    *)
(***************************************************************************)
\* the buffer size of bufio.NewReader
defaultBufSize == 4096

\* bufio.NewReader(genoFile).  off is the read offset of genoFile, w and r are
\* b.w and b.r.  b.buf[0:w] is a copy of the w bytes before off, and the file
\* does not change during the call, so the copy is read from the file.
NewReader == [off |-> 0, w |-> 0, r |-> 0]

\* copy(dst, src): the first min(len) bytes of dst are overwritten
Copy(dst, src) ==
  LET n == Min(Len(dst), Len(src))
  IN [i \in 1..Len(dst) |-> IF i <= n THEN src[i] ELSE dst[i]]

\* one Read of the *os.File at offset off into a buffer of `want` bytes: what
\* is left of the file, at most `want` bytes
FileRead(content, off, want) == SubSeq(content, off + 1, Min(Len(content), off + want))

\* b.buf[b.r:b.w]
Buffered(rd, content) == SubSeq(content, rd.off - rd.w + rd.r + 1, rd.off)

\* genoReader.Read(p) of bufio.Reader: [rd, p, n].  With an empty buffer it
\* reads the file once (straight into p when p is at least as large as the
\* buffer), then copies what the buffer holds, which may be less than len(p).
BufRead(rd, content, p) ==
  IF Len(p) = 0 THEN [rd |-> rd, p |-> p, n |-> 0]
  ELSE IF rd.r = rd.w /\ Len(p) >= defaultBufSize
    THEN LET got == FileRead(content, rd.off, Len(p))
         IN [rd |-> [rd EXCEPT !.off = rd.off + Len(got)],
             p  |-> Copy(p, got),
             n  |-> Len(got)]
  ELSE LET got    == FileRead(content, rd.off, defaultBufSize)
           filled == IF rd.r = rd.w /\ Len(got) > 0
                       THEN [off |-> rd.off + Len(got), w |-> Len(got), r |-> 0]
                       ELSE rd
           avail  == Buffered(filled, content)
           n      == Min(Len(p), Len(avail))
       IN [rd |-> [filled EXCEPT !.r = filled.r + n],
           p  |-> Copy(p, avail),
           n  |-> n]

(***************************************************************************)
(* ProcessGenoRows                                                         *)
(***************************************************************************)
\* "Why 48? See original EIG/src/mcio.c"
MinGenoChunkSize == 48

\* the width as it would be with the division rounded down
ChunkSizeFloor(nInds) == nInds \div 4

\* int(math.Ceil(float64(len(inds)) / 4))
ChunkSize(nInds) == IF nInds % 4 = 0 THEN nInds \div 4 ELSE (nInds \div 4) + 1

\* genoChunkSize := chunkSize; if genoChunkSize < 48 { genoChunkSize = 48 }
GenoChunkSize(nInds) ==
  IF ChunkSize(nInds) < MinGenoChunkSize THEN MinGenoChunkSize ELSE ChunkSize(nInds)

\* 2^k for the shift counts 0, 2, 4, 6
Pow2(k) == CASE k = 0 -> 1 [] k = 2 -> 4 [] k = 4 -> 16 [] k = 6 -> 64

\* the body of the inner loop as it would be with the highest bit pair first
GenotypeHighFirst(chunk, indIndex) ==
  (chunk[(indIndex \div 4) + 1] \div Pow2((3 - (indIndex % 4)) * 2)) % 4

\* the body of the inner loop: (rchunk[floor(indIndex/4)] >> (indIndex%4)*2) & 3
Genotype(chunk, indIndex) ==
  LET byteOffset == indIndex \div 4
      bitOffset  == (indIndex % 4) * 2
      b          == chunk[byteOffset + 1]
  IN (b \div Pow2(bitOffset)) % 4

\* genoRow after the inner loop over indIndex = 0 .. len(inds)-1
DecodeRow(chunk, nInds) == [i \in 1..nInds |-> Genotype(chunk, i - 1)]

\* one backing array reused for every row
AllocRowShared(h) == 1

\* make([]byte, len(inds)): a slice of its own, at a fresh address
AllocRow(h) == Len(h) + 1

\* h with the slice at address a holding row
Store(h, a, row) == IF a > Len(h) THEN Append(h, row) ELSE [h EXCEPT ![a] = row]

\* a loop that stops before the last marker
LoopCondShort(i, nSnps) == i + 1 < nSnps

\* the loop condition snpIndex < len(snps)
LoopCond(i, nSnps) == i < nSnps

\* a call that goes on whatever the integrity check said
HashCheckIgnored(okay) == "nil"

\* the error of `if !ok { return errors.New("Hash is not ok") }`, "nil" to go on
HashCheck(okay) == IF ~okay THEN "Hash is not ok" ELSE "nil"

\* a barrier that does not wait
WaitReturnsAtOnce(counter) == TRUE

\* wg.Wait() returns when the counter is zero
WaitReturns(counter) == counter = 0

\* the Snp handed to the goroutine of iteration i: snps[snpIndex]
SnpArg(table, i) == table[i + 1]

(***************************************************************************)
(* The datasets the calls are run on                                       *)
(***************************************************************************)
\* individuals and markers of the datasets run with every interleaving
MaxInds == 5
MaxSnps == 2
\* individuals of the widest dataset (record widths beyond the minimum)
MaxWideInds == 194
\* markers of the long dataset, whose geno file is larger than the reader's buffer
LongSnps == 86
\* goroutines the run on the long dataset lets be unfinished at a time
MaxInFlight == 1
\* markers of the dataset whose geno file holds no '\n' in its first 64 KiB
NoNewlineSnps == 1366
\* bytes of the files HashFileFirstColumn is called on directly
MaxHashLen == 7

\* first byte of the first marker record: 0b11100100 and other bit patterns
Seeds == {228, 27, 0, 255, 141, 198}

\* the bytes of the files hashed directly: '\n', ' ', 'A' and 0xFF
HashBytes == {10, 32, 65, 255}

\* a token long enough for its hash to pass 2^32
LongToken == <<255, 255, 255, 255, 255, 255, 255>>

\* files whose digest wraps: in HashIt, and in hash *= 17 as well
WrappingFiles ==
  {LongToken \o <<10>>,
   LongToken \o <<10, 65>>,
   LongToken \o <<10>> \o LongToken \o <<10>>,
   LongToken \o <<10>> \o LongToken \o <<10, 32, 65, 32, 65>>}

\* decimal digits of a natural number
RECURSIVE Dec(_)
Dec(i) == IF i < 10 THEN <<48 + i>> ELSE Append(Dec(i \div 10), 48 + (i % 10))

\* line i of an individual table: "I<i> U P\n"
IndLine(i) == <<73>> \o Dec(i) \o <<32, 85, 32, 80, 10>>

\* line k of a marker table: "S<k> 1 0.5 <100+k> A C\n"
SnpLine(k) == <<83>> \o Dec(k) \o <<32, 49, 32, 48, 46, 53, 32>> \o Dec(100 + k)
                \o <<32, 65, 32, 67, 10>>

\* lines lo..hi of an individual table
RECURSIVE IndLines(_, _)
IndLines(lo, hi) ==
  IF lo > hi THEN <<>>
  ELSE IF lo = hi THEN IndLine(lo)
  ELSE IndLines(lo, (lo + hi) \div 2) \o IndLines(((lo + hi) \div 2) + 1, hi)

IndTable(n) == IndLines(1, n)

\* lines lo..hi of a marker table
RECURSIVE SnpLines(_, _)
SnpLines(lo, hi) ==
  IF lo > hi THEN <<>>
  ELSE IF lo = hi THEN SnpLine(lo)
  ELSE SnpLines(lo, (lo + hi) \div 2) \o SnpLines(((lo + hi) \div 2) + 1, hi)

SnpTable(m) == SnpLines(1, m)

\* a table without the '\n' of its last line
Unterminated(table) == IF Len(table) = 0 THEN table ELSE SubSeq(table, 1, Len(table) - 1)

\* the header record: "GENO <ind digest> <snp digest>", zero-padded to the width
GenoHeader(indHash, snpHash, width) ==
  LET text == <<71, 69, 78, 79, 32>> \o FormatInt16(indHash) \o <<32>> \o FormatInt16(snpHash)
  IN [j \in 1..width |-> IF j <= Len(text) THEN text[j] ELSE 0]

\* the packed record of marker k (0-based): varied bytes, the first of marker 0
\* being the seed
GenoRecord(k, width, seed) == [j \in 1..width |-> (seed + 57 * (j - 1) + 101 * k) % 256]

\* the records of markers 0 .. m-1, one after the other
GenoRecords(m, width, seed) ==
  [p \in 1..(m * width) |-> GenoRecord((p - 1) \div width, width, seed)[((p - 1) % width) + 1]]

\* a geno file for the two tables: the header and one record per marker
GenoFile(indTable, snpTable, nInds, nSnps, seed) ==
  GenoHeader(HashFileFirstColumn(indTable), HashFileFirstColumn(snpTable),
             GenoChunkSize(nInds))
    \o GenoRecords(nSnps, GenoChunkSize(nInds), seed)

ThreePaths == [geno |-> "geno", ind |-> "ind", snp |-> "snp"]

BadChromosomeLine == <<83, 32, 88, 32, 48, 32, 49, 32, 65, 32, 67, 10>>
ShortSnpLine == <<83, 32, 49, 32, 48, 10>>
ShortIndLine == <<73, 32, 85, 10>>

\* the individual table of dataset d
IndFile(d) ==
  CASE d.kind = "shortindline" -> IndTable(d.n) \o ShortIndLine
    [] d.kind = "nofinalnewline" -> Unterminated(IndTable(d.n))
    [] OTHER -> IndTable(d.n)

\* the marker table of dataset d
SnpFile(d) ==
  CASE d.kind = "badchromosome" -> SnpTable(d.m) \o BadChromosomeLine
    [] d.kind = "shortsnpline" -> SnpTable(d.m) \o ShortSnpLine
    [] d.kind = "nofinalnewline" -> Unterminated(SnpTable(d.m))
    [] OTHER -> SnpTable(d.m)

\* the geno file of dataset d
GenoOf(d) ==
  LET w    == GenoChunkSize(d.n)
      good == GenoFile(IndFile(d), SnpFile(d), d.n, d.m, d.seed)
  IN CASE d.kind = "badhash" ->
            GenoHeader(Xor32(HashFileFirstColumn(IndFile(d)), U32(0, 1)),
                       HashFileFirstColumn(SnpFile(d)), w) \o GenoRecords(d.m, w, d.seed)
       [] d.kind = "samepath" -> GenoFile(SnpFile(d), SnpFile(d), d.n, d.m, d.seed)
       [] d.kind = "cutbyte" -> SubSeq(good, 1, Len(good) - 1)
       [] d.kind = "cutrecord" -> SubSeq(good, 1, Len(good) - w)
       [] d.kind = "cutheader" -> SubSeq(good, 1, w - 8)
       [] d.kind = "emptygeno" -> <<>>
       [] d.kind = "allmissing" ->
            GenoHeader(HashFileFirstColumn(IndFile(d)), HashFileFirstColumn(SnpFile(d)), w)
              \o [p \in 1..(d.m * w) |-> 255]
       [] OTHER -> good

\* the paths that exist for dataset d
PathsOf(d) ==
  CASE d.kind = "nogeno" -> {"ind", "snp"}
    [] d.kind = "noind" -> {"geno", "snp"}
    [] d.kind = "nosnp" -> {"geno", "ind"}
    [] d.kind = "samepath" -> {"geno", "snp"}
    [] OTHER -> {"geno", "ind", "snp"}

\* the file system of dataset d: path -> content (a path outside the domain
\* does not exist)
FilesOf(d) ==
  [p \in PathsOf(d) |->
     CASE p = "geno" -> GenoOf(d) [] p = "ind" -> IndFile(d) [] p = "snp" -> SnpFile(d)]

\* the arguments of the call on dataset d: the three paths
ArgsOf(d) ==
  IF d.kind = "samepath" THEN [geno |-> "geno", ind |-> "snp", snp |-> "snp"]
  ELSE ThreePaths

\* the file system during the call, and the arguments of the call
fs == FilesOf(disk)

args == ArgsOf(disk)

Kinds == {"badhash", "samepath", "cutbyte", "cutrecord", "cutheader", "emptygeno",
          "badchromosome", "shortsnpline", "shortindline", "nofinalnewline",
          "nogeno", "noind", "nosnp"}

\* every size and seed, valid; every other kind at two individuals; the wide
\* individual tables with one marker; and one individual whose genotype is
\* missing (code 3) at every marker, so that every record byte is 0xFF
Datasets ==
  [n : 0..MaxInds, m : 0..MaxSnps, seed : Seeds, kind : {"valid"}]
    \cup [n : {2}, m : 1..MaxSnps, seed : {228}, kind : Kinds]
    \cup [n : (MaxInds + 1)..MaxWideInds, m : {1}, seed : {228}, kind : {"valid"}]
    \cup [n : {1}, m : {NoNewlineSnps}, seed : {255}, kind : {"allmissing"}]

LongDatasets == [n : {1}, m : {LongSnps}, seed : {228}, kind : {"valid"}]

(***************************************************************************)
(* ProcessGenoRows, step by step                                           *)
(***************************************************************************)
\* lines 116-123
CallCalcishash ==
  /\ pc = "start"
  /\ LET res == Calcishash(fs, args.geno, args.ind, args.snp) IN
       /\ ok' = res.ok
       /\ IF res.err # "nil" THEN pc' = "returned" /\ err' = res.err
          ELSE IF HashCheck(res.ok) # "nil"
            THEN pc' = "returned" /\ err' = HashCheck(res.ok)
          ELSE pc' = "readSnp" /\ err' = err
  /\ UNCHANGED <<disk, snps, inds, genoReader, genoChunkSize, rchunk, snpIndex,
                 genoRow, heap, wg, task, hashArg, hashRet>>

\* lines 125-128
CallReadSnpFile ==
  /\ pc = "readSnp"
  /\ LET out == ReadSnpFile(fs, args.snp) IN
       /\ snps' = out.snps
       /\ pc' = CASE out.res = "ok" -> "readInd"
                  [] out.res = "error" -> "returned"
                  [] out.res = "panic" -> "panicked"
       /\ err' = IF out.res = "error" THEN "snp file" ELSE err
  /\ UNCHANGED <<disk, ok, inds, genoReader, genoChunkSize, rchunk, snpIndex,
                 genoRow, heap, wg, task, hashArg, hashRet>>

\* lines 130-133
CallReadIndFile ==
  /\ pc = "readInd"
  /\ LET out == ReadIndFile(fs, args.ind) IN
       /\ inds' = out.inds
       /\ pc' = CASE out.res = "ok" -> "open"
                  [] out.res = "error" -> "returned"
                  [] out.res = "panic" -> "panicked"
       /\ err' = IF out.res = "error" THEN "ind file" ELSE err
  /\ UNCHANGED <<disk, ok, snps, genoReader, genoChunkSize, rchunk, snpIndex,
                 genoRow, heap, wg, task, hashArg, hashRet>>

\* lines 135-154: open the geno file, size and allocate rchunk, skip the header
\* with one Read whose results are dropped, and make the WaitGroup
SkipHeader ==
  /\ pc = "open"
  /\ IF args.geno \notin DOMAIN fs
       THEN /\ pc' = "returned" /\ err' = "open"
            /\ UNCHANGED <<genoReader, genoChunkSize, rchunk, wg>>
       ELSE LET size == GenoChunkSize(Len(inds))
                rd   == BufRead(NewReader, fs[args.geno], [i \in 1..size |-> 0])
            IN /\ genoChunkSize' = size
               /\ genoReader' = rd.rd
               /\ rchunk' = rd.p
               /\ wg' = 0
               /\ pc' = "loop" /\ err' = err
  /\ UNCHANGED <<disk, ok, snps, inds, snpIndex, genoRow, heap, task, hashArg, hashRet>>

\* lines 155-156: the loop condition, then genoReader.Read(rchunk), results dropped
LoopRead ==
  /\ pc = "loop"
  /\ IF LoopCond(snpIndex, Len(snps))
       THEN LET rd == BufRead(genoReader, fs[args.geno], rchunk)
            IN genoReader' = rd.rd /\ rchunk' = rd.p /\ pc' = "decode"
       ELSE pc' = "wait" /\ UNCHANGED <<genoReader, rchunk>>
  /\ UNCHANGED <<disk, ok, err, snps, inds, genoChunkSize, snpIndex, genoRow, heap,
                 wg, task, hashArg, hashRet>>

\* lines 158-165: a new genoRow, filled from rchunk
LoopDecode ==
  /\ pc = "decode"
  /\ genoRow' = AllocRow(heap)
  /\ heap' = Store(heap, genoRow', DecodeRow(rchunk, Len(inds)))
  /\ pc' = "dispatch"
  /\ UNCHANGED <<disk, ok, err, snps, inds, genoReader, genoChunkSize, rchunk,
                 snpIndex, wg, task, hashArg, hashRet>>

\* lines 167-173: wg.Add(1), the go statement with its arguments evaluated,
\* and snpIndex++
LoopDispatch ==
  /\ pc = "dispatch"
  /\ wg' = wg + 1
  /\ task' = Append(task, [st |-> "spawned", calls |-> 0, genoRow |-> genoRow,
                           snp |-> SnpArg(snps, snpIndex)])
  /\ snpIndex' = snpIndex + 1
  /\ pc' = "loop"
  /\ UNCHANGED <<disk, ok, err, snps, inds, genoReader, genoChunkSize, rchunk,
                 genoRow, heap, hashArg, hashRet>>

\* lines 174-176: wg.Wait() and return nil
Wait ==
  /\ pc = "wait"
  /\ WaitReturns(wg)
  /\ pc' = "returned"
  /\ err' = "nil"
  /\ UNCHANGED <<disk, ok, snps, inds, genoReader, genoChunkSize, rchunk, snpIndex,
                 genoRow, heap, wg, task, hashArg, hashRet>>

\* line 169: goroutine g calls processFunc(genoRow, snp, inds)
TaskCall(g) ==
  /\ task[g].st = "spawned"
  /\ task' = [task EXCEPT ![g].st = "running", ![g].calls = @ + 1]
  /\ UNCHANGED <<disk, ok, pc, err, snps, inds, genoReader, genoChunkSize, rchunk,
                 snpIndex, genoRow, heap, wg, hashArg, hashRet>>

\* line 169: processFunc returns
TaskReturn(g) ==
  /\ task[g].st = "running"
  /\ task' = [task EXCEPT ![g].st = "returned"]
  /\ UNCHANGED <<disk, ok, pc, err, snps, inds, genoReader, genoChunkSize, rchunk,
                 snpIndex, genoRow, heap, wg, hashArg, hashRet>>

\* line 170: wg.Done()
TaskDone(g) ==
  /\ task[g].st = "returned"
  /\ task' = [task EXCEPT ![g].st = "done"]
  /\ wg' = wg - 1
  /\ UNCHANGED <<disk, ok, pc, err, snps, inds, genoReader, genoChunkSize, rchunk,
                 snpIndex, genoRow, heap, hashArg, hashRet>>

\* a direct call of HashFileFirstColumn on an existing file
CallHashFileFirstColumn ==
  /\ pc = "hash"
  /\ hashRet' = HashFileFirstColumn(hashArg)
  /\ pc' = "hashed"
  /\ UNCHANGED <<disk, ok, err, snps, inds, genoReader, genoChunkSize, rchunk,
                 snpIndex, genoRow, heap, wg, task, hashArg>>

(***************************************************************************)
(* Specifications                                                          *)
(***************************************************************************)
\* the state at the call of ProcessGenoRows on dataset d
Called(d) ==
  /\ disk = d
  /\ pc = "start"
  /\ ok = FALSE
  /\ err = "pending"
  /\ snps = <<>>
  /\ inds = <<>>
  /\ genoReader = NewReader
  /\ genoChunkSize = 0
  /\ rchunk = <<>>
  /\ snpIndex = 0
  /\ genoRow = 0
  /\ heap = <<>>
  /\ wg = 0
  /\ task = <<>>
  /\ hashArg = <<>>
  /\ hashRet = "pending"

Init == \E d \in Datasets : Called(d)

Tasks ==
  \E g \in 1..Len(task) : TaskCall(g) \/ TaskReturn(g) \/ TaskDone(g)

Next ==
  \/ CallCalcishash
  \/ CallReadSnpFile
  \/ CallReadIndFile
  \/ SkipHeader
  \/ LoopRead
  \/ LoopDecode
  \/ LoopDispatch
  \/ Wait
  \/ Tasks

Spec == Init /\ [][Next]_vars

\* the call on the long dataset, where an iteration of the loop starts only
\* when fewer than MaxInFlight goroutines are unfinished
InitLong == \E d \in LongDatasets : Called(d)

InFlight == Cardinality({g \in 1..Len(task) : task[g].st # "done"})

LoopReadLong == InFlight < MaxInFlight /\ LoopRead

NextLong ==
  \/ CallCalcishash
  \/ CallReadSnpFile
  \/ CallReadIndFile
  \/ SkipHeader
  \/ LoopReadLong
  \/ LoopDecode
  \/ LoopDispatch
  \/ Wait
  \/ Tasks

SpecLong == InitLong /\ [][NextLong]_vars

\* HashFileFirstColumn called directly on every file of up to MaxHashLen bytes
InitHash ==
  /\ hashArg \in UNION {[1..n -> HashBytes] : n \in 0..MaxHashLen} \cup WrappingFiles
  /\ hashRet = "pending"
  /\ pc = "hash"
  /\ ok = FALSE
  /\ disk = [n |-> 0, m |-> 0, seed |-> 0, kind |-> "valid"]
  /\ err = "pending"
  /\ snps = <<>>
  /\ inds = <<>>
  /\ genoReader = NewReader
  /\ genoChunkSize = 0
  /\ rchunk = <<>>
  /\ snpIndex = 0
  /\ genoRow = 0
  /\ heap = <<>>
  /\ wg = 0
  /\ task = <<>>

NextHash == CallHashFileFirstColumn

SpecHash == InitHash /\ [][NextHash]_vars

(***************************************************************************)
(* Properties                                                              *)
(***************************************************************************)
\* ProcessGenoRows has returned nil
Succeeded == pc = "returned" /\ err = "nil"

Goroutines == 1..Len(task)

\* the goroutines whose handler has been invoked with marker x
InvokedWith(x) == {g \in Goroutines : task[g].calls = 1 /\ task[g].snp = x}

\* the places of marker x in the marker table
PlacesOf(x) == {k \in 1..Len(snps) : snps[k] = x}

\* C1: when ProcessGenoRows returns nil over a table of M markers, the handler
\* has been invoked exactly once for each marker of the table, no marker is left
\* out and none is delivered twice: the markers the handler saw are, with their
\* multiplicities, the markers of the table.  At no time has a handler been
\* invoked twice for one dispatch or with a marker that is not in the table.
C1_ExactlyOncePerMarker ==
  /\ \A g \in Goroutines :
       /\ task[g].calls <= 1
       /\ PlacesOf(task[g].snp) # {}
       /\ Cardinality(InvokedWith(task[g].snp)) <= Cardinality(PlacesOf(task[g].snp))
  /\ Succeeded =>
       /\ Len(task) = Len(snps)
       /\ \A g \in Goroutines : task[g].calls = 1
       /\ \A k \in 1..Len(snps) :
            Cardinality(InvokedWith(snps[k])) = Cardinality(PlacesOf(snps[k]))

\* a successful call over a table of at least two markers
C1_Witness ==
  /\ Succeeded
  /\ Len(snps) >= 2
  /\ \A k \in 1..Len(snps) : Cardinality(InvokedWith(snps[k])) = 1

\* C2: when ProcessGenoRows returns, every handler invocation it dispatched has
\* started and has finished: as many invocations are complete as goroutines
\* were started, and none is waiting to start or still running.
C2_ReturnsAfterAllHandlers ==
  pc = "returned" =>
    /\ Cardinality({g \in Goroutines : task[g].st = "done"}) = Len(task)
    /\ \A g \in Goroutines : task[g].st \notin {"spawned", "running"}
    /\ wg = 0

\* a return after two or more handlers ran
C2_Witness ==
  /\ Succeeded
  /\ Len(task) >= 2
  /\ \A g \in Goroutines : task[g].st = "done"

\* the codes of the individuals 4j .. 4j+cnt-1 of a row, read as base-4 digits,
\* the lowest individual being the lowest digit
PackedValue(row, j, cnt) ==
  (IF cnt >= 1 THEN row[4 * j + 1] ELSE 0)
    + (IF cnt >= 2 THEN 4 * row[4 * j + 2] ELSE 0)
    + (IF cnt >= 3 THEN 16 * row[4 * j + 3] ELSE 0)
    + (IF cnt >= 4 THEN 64 * row[4 * j + 4] ELSE 0)

\* C3: the row decoded from a record for n individuals has n entries, each in
\* {0,1,2,3}, and packing the entries back four to a byte, the lowest individual
\* in the lowest bit pair, gives the record's bytes (the low 2*cnt bits of the
\* last byte when only cnt individuals fall in it): entry i is bits 2*(i mod 4),
\* 2*(i mod 4)+1 of byte i div 4.  A first byte 0b11100100 decodes to 0,1,2,3.
C3_DecodedRow ==
  pc = "dispatch" =>
    LET row == heap[genoRow]
        n   == Len(inds)
    IN /\ Len(row) = n
       /\ \A i \in 1..n : row[i] \in 0..3
       /\ \A j \in 0..((n - 1) \div 4) :
            LET cnt == Min(4, n - 4 * j)
            IN j * 4 < n => PackedValue(row, j, cnt) = rchunk[j + 1] % (4 ^ cnt)
       /\ (n >= 4 /\ rchunk[1] = 228) => SubSeq(row, 1, 4) = <<0, 1, 2, 3>>

\* five individuals decoded from a record that starts with 0b11100100
C3_Witness ==
  /\ pc = "dispatch"
  /\ Len(inds) = 5
  /\ rchunk[1] = 228
  /\ heap[genoRow] = <<0, 1, 2, 3, rchunk[2] % 4>>

\* the record of marker k (0-based) in a geno file of width-byte records
RecordOf(content, k, width) == SubSeq(content, (k + 1) * width + 1, (k + 2) * width)

\* C4: when the geno file is a header record and one record per marker, the row
\* delivered for marker k is decoded from the file bytes
\* [(k+1)*W, (k+2)*W): the header is skipped once, and every Read takes one
\* whole record, wherever the records fall in the reader's buffer.
C4_RowFromOwnRecord ==
  Len(task) > 0 =>
    LET geno == fs[args.geno]
    IN Len(geno) = (Len(snps) + 1) * genoChunkSize =>
         \A g \in Goroutines :
           heap[task[g].genoRow]
             = DecodeRow(RecordOf(geno, g - 1, genoChunkSize), Len(inds))

\* the first line of a file: what precedes its first '\n', the whole file when
\* it has none
RefFirstLine(content) ==
  LET nls == {i \in 1..Len(content) : content[i] = 10}
  IN IF nls = {} THEN content
     ELSE SubSeq(content, 1, (CHOOSE i \in nls : \A j \in nls : i <= j) - 1)

RefHexChars == <<48, 49, 50, 51, 52, 53, 54, 55, 56, 57, 97, 98, 99, 100, 101, 102>>

\* a 32-bit digest in lowercase hexadecimal without leading zeros
RefHex(h) ==
  LET nib    == <<h.hi \div 4096, (h.hi \div 256) % 16, (h.hi \div 16) % 16, h.hi % 16,
                  h.lo \div 4096, (h.lo \div 256) % 16, (h.lo \div 16) % 16, h.lo % 16>>
      nz     == {i \in 1..8 : nib[i] # 0}
      first  == IF nz = {} THEN 8 ELSE CHOOSE i \in nz : \A j \in nz : i <= j
  IN [i \in 1..(9 - first) |-> RefHexChars[nib[first + i - 1] + 1]]

RefContains(text, pat) ==
  \E i \in 1..(Len(text) - Len(pat) + 1) : SubSeq(text, i, i + Len(pat) - 1) = pat

\* the first line of the geno file holds both digests, and the table paths differ
RefVerified ==
  /\ {args.geno, args.ind, args.snp} \subseteq DOMAIN fs
  /\ LET header == RefFirstLine(fs[args.geno])
     IN /\ RefContains(header, RefHex(HashFileFirstColumn(fs[args.ind])))
        /\ RefContains(header, RefHex(HashFileFirstColumn(fs[args.snp])))
  /\ args.ind # args.snp

\* C5: Calcishash returns true if and only if the first line of the geno file
\* contains the lowercase, unpadded hexadecimal digest of the individual table
\* and that of the marker table, and indPath differs from snpPath.
C5_TrueIffDigestsInFirstLine ==
  pc \notin {"start", "hash", "hashed"} => (ok <=> RefVerified)

\* C6: there is no partial success.  When ProcessGenoRows has returned an error
\* (or has panicked on a malformed table) the handler has never been invoked;
\* once a handler has been invoked the call can only end by returning nil, and
\* then every marker has been dispatched; and when the integrity check did not
\* pass, no record has been read, no row decoded and no goroutine started.
C6_NoPartialSuccess ==
  /\ ((pc = "returned" /\ err # "nil") \/ pc = "panicked") =>
       (task = <<>> /\ heap = <<>>)
  /\ (\E g \in Goroutines : task[g].calls > 0) =>
       (pc \in {"loop", "decode", "dispatch", "wait"} \/ Succeeded)
  /\ Succeeded => Len(task) = Len(snps)
  /\ (pc \notin {"start", "hash", "hashed"} /\ ~ok) =>
       /\ pc = "returned" /\ err # "nil"
       /\ genoReader = NewReader /\ rchunk = <<>> /\ heap = <<>> /\ task = <<>>

\* the call has failed the integrity check of a dataset whose files all exist
C6_Witness ==
  /\ pc = "returned"
  /\ err = "Hash is not ok"
  /\ {args.geno, args.ind, args.snp} \subseteq DOMAIN fs
  /\ task = <<>>

\* C7: when the geno file is shorter than the header record and one record per
\* marker, so that some Read finds fewer than recordWidth bytes left,
\* ProcessGenoRows fails: it does not return nil.
C7_ShortRecordFails ==
  Succeeded => Len(fs[args.geno]) >= (Len(snps) + 1) * genoChunkSize

\* --- the digest of claim C8, computed on its own: a uint32 is its four
\* base-256 digits, least significant first
RefZero == <<0, 0, 0, 0>>

\* digit i (1..4) of x * k + c, the carry out of the fourth digit being dropped
RECURSIVE RefCarry(_, _, _, _)
RefCarry(x, k, c, i) == IF i = 0 THEN c ELSE (x[i] * k + RefCarry(x, k, c, i - 1)) \div 256

RefMulAdd(x, k, c) == [i \in 1..4 |-> (x[i] * k + RefCarry(x, k, c, i - 1)) % 256]

RefWeights == <<1, 2, 4, 8, 16, 32, 64, 128>>

RefBit(a, i) == (a \div RefWeights[i + 1]) % 2

RefXorByte(a, b) ==
  LET bit(i) == IF RefBit(a, i) = RefBit(b, i) THEN 0 ELSE RefWeights[i + 1]
  IN bit(0) + bit(1) + bit(2) + bit(3) + bit(4) + bit(5) + bit(6) + bit(7)

RefXor(x, y) == [i \in 1..4 |-> RefXorByte(x[i], y[i])]

\* tokenHash = tokenHash * 23 + byte, over the first k bytes of a token, from 0
RECURSIVE RefTokenHash(_, _)
RefTokenHash(token, k) ==
  IF k = 0 THEN RefZero ELSE RefMulAdd(RefTokenHash(token, k - 1), 23, token[k])

\* the first run of non-whitespace bytes of a line: it starts at the first
\* non-whitespace byte and ends before the next whitespace byte
RefFirstToken(line) ==
  LET black == {i \in 1..Len(line) : ~IsReSpace(line[i])}
  IN IF black = {} THEN <<>>
     ELSE LET a == CHOOSE i \in black : \A j \in black : i <= j
              b == CHOOSE i \in black :
                     /\ \A j \in a..i : j \in black
                     /\ (i + 1) \notin black
          IN SubSeq(line, a, b)

\* the lines of a content: the stretches between newline bytes, without them.
\* What follows the last newline byte is a line when `withTail` and it is not empty.
RefLines(content, withTail) ==
  LET nls   == {i \in 1..Len(content) : content[i] = NL}
      ends  == IF withTail /\ Len(content) > 0 /\ content[Len(content)] # NL
                 THEN nls \cup {Len(content) + 1} ELSE nls
      nth(k) == CHOOSE e \in ends : Cardinality({q \in ends : q <= e}) = k
      start(e) == IF \E q \in nls : q < e
                    THEN 1 + CHOOSE q \in nls : q < e /\ \A r \in nls : r < e => r <= q
                    ELSE 1
  IN [k \in 1..Cardinality(ends) |-> SubSeq(content, start(nth(k)), nth(k) - 1)]

\* hash = (hash * 17) XOR HashIt(firstToken) over the first k lines, from 0
RECURSIVE RefFold(_, _)
RefFold(lines, k) ==
  IF k = 0 THEN RefZero
  ELSE LET token == RefFirstToken(lines[k])
       IN RefXor(RefMulAdd(RefFold(lines, k - 1), 17, 0), RefTokenHash(token, Len(token)))

RefDigest(content, withTail) ==
  LET lines == RefLines(content, withTail) IN RefFold(lines, Len(lines))

\* the four digits of a returned uint32
RefDigits(h) == <<h.lo % 256, h.lo \div 256, h.hi % 256, h.hi \div 256>>

\* C8 as claimed: HashFileFirstColumn returns the fold over every line of the
\* file, whether or not the last line ends with a newline byte.
C8_FoldOverEveryLine ==
  pc = "hashed" => RefDigits(hashRet) = RefDigest(hashArg, TRUE)

\* C8 as the code has it: HashFileFirstColumn returns the fold, over every
\* newline-terminated line of the file in order, of hash = (hash*17) XOR
\* HashIt(firstToken) from 0 in uint32 arithmetic; bytes after the last newline
\* byte are not part of the digest.
C8_FoldOverTerminatedLines ==
  pc = "hashed" => RefDigits(hashRet) = RefDigest(hashArg, FALSE)

\* a token of seven 0xFF bytes, whose hash 255 * (23^7 - 1) / 22 = 39465022215
\* wraps to 810316551 = 12364 * 2^16 + 29447, then an unterminated 'A'
C8_Witness ==
  /\ pc = "hashed"
  /\ hashArg = LongToken \o <<10, 65>>
  /\ hashRet = U32(12364, 29447)

\* the least w with 4*w >= n
IsCeilQuarter(w, n) == 4 * w >= n /\ 4 * (w - 1) < n

\* C9: once computed, the record width is 48 for every count n <= 192 of
\* individuals and ceil(n/4) for every larger n, it stays what it is for the
\* rest of the call, and rchunk, the buffer of the header Read and of every
\* marker Read, is that many bytes long.
C9_RecordWidth ==
  pc \in {"loop", "decode", "dispatch", "wait"} \/ Succeeded =>
    /\ Len(inds) <= 192 => genoChunkSize = 48
    /\ Len(inds) > 192 => IsCeilQuarter(genoChunkSize, Len(inds))
    /\ Len(rchunk) = genoChunkSize

\* a call over 193 individuals, whose records are 49 bytes wide, has dispatched
\* a row
C9_Witness ==
  /\ Len(inds) = 193
  /\ genoChunkSize = 49
  /\ Len(rchunk) = 49
  /\ Len(task) = 1

\* C10: a row, once handed to a goroutine, is never written again, and neither
\* is the marker handed over with it, while the loop reads and decodes later
\* records; and no two goroutines hold the same row storage.
C10_RowsOwned ==
  [][/\ \A g \in Goroutines :
          /\ task'[g].genoRow = task[g].genoRow
          /\ task'[g].snp = task[g].snp
          /\ heap'[task[g].genoRow] = heap[task[g].genoRow]
     /\ \A g, h \in 1..Len(task') :
          g # h => task'[g].genoRow # task'[h].genoRow]_vars

\* the loop has decoded the row of a later marker, different from the row that
\* a still running handler holds
C10_Witness ==
  /\ pc = "dispatch"
  /\ \E g \in Goroutines :
       /\ task[g].st = "running"
       /\ task[g].genoRow # genoRow
       /\ heap[task[g].genoRow] # heap[genoRow]

====
